---- MODULE Spec2Model ----
(***************************************************************************)
(* A model of src/app.py: the daily AI report pipeline.                    *)
(*                                                                         *)
(*   main()                      the run: key check, search, model call,   *)
(*                               sanitising, parsing and rendering         *)
(*   search_aggregated_data()    three search tasks, one corpus            *)
(*   process_news_with_gemini()  model-name mapping, one generate_content  *)
(*                               call, classification of its errors        *)
(*                                                                         *)
(* Texts that the code inspects character by character (the model's reply, *)
(* the provider's error message) are sequences of one-character strings.   *)
(* The corpus is a sequence of non-empty chunks of text: the code only     *)
(* joins it, tests it for emptiness and passes it on.                      *)
(*                                                                         *)
(* json.loads is modelled on the JSON the replies are written in: objects, *)
(* arrays, strings without escapes, unsigned integers and null.            *)
(*                                                                         *)
(* The search provider either raises or answers with a list of items that  *)
(* each have a title, a content and a url; the model provider either       *)
(* raises or answers with a text.  Page configuration, styling, the notes  *)
(* of the sidebar and the captions change nothing the run reads and are    *)
(* left out.                                                               *)
(***************************************************************************)
EXTENDS Naturals, Sequences, FiniteSets

VARIABLES
    pc,             \* where the run is
    caller,         \* "main": the run of main(); "direct": process_news_with_gemini called on its own
    run_btn,        \* the button of line 233
    google_api_key, \* sidebar input, line 208 (the google_key argument of a direct call)
    tavily_api_key, \* sidebar input, line 209
    model_choice,   \* selectbox, line 214 (the model_selection argument of a direct call)
    task_i,         \* index of the search task the loop of line 85 is at
    all_results,    \* line 63: the blocks appended so far
    task_log,       \* what the provider answered to each executed task, in order
    warnings,       \* categories named by the st.warning of line 104
    raw_data,       \* line 249: what search_aggregated_data returned
    target_model,   \* line 141
    submitted,      \* the model names handed to the provider by generate_content, in order
    response_text,  \* the text of the provider's reply (response.text, line 191)
    error_msg,      \* str(e), line 194
    st_error,       \* the st.error of lines 196-200: its class and the identifier it prints
    json_result,    \* line 259: what process_news_with_gemini returned
    cleaned_json,   \* line 270
    data,           \* line 271: whether json.loads returned, and what
    outcome,        \* how the run ended
    rendered,       \* items drawn in each tab before the run ended
    raw_shown,      \* the text of the debug expander, line 318
    resolved_log,   \* every (requested, submitted) pair of model names seen so far
    n_calls         \* direct calls of process_news_with_gemini made so far

vars ==
    << pc, caller, run_btn, google_api_key, tavily_api_key, model_choice, task_i,
       all_results, task_log, warnings, raw_data, target_model, submitted,
       response_text, error_msg, st_error, json_result, cleaned_json, data,
       outcome, rendered, raw_shown, resolved_log, n_calls >>

----------------------------------------------------------------------------
(* Bounds of the model. *)

\* Documents the search provider returns in one run, over all tasks.
MaxDocs == 2

\* Direct calls of process_news_with_gemini in one behaviour.
MaxCalls == 2

----------------------------------------------------------------------------
(* Python values: a str or None. *)

None == [isNone |-> TRUE, s |-> <<>>]

Str(s) == [isNone |-> FALSE, s |-> s]

\* `not x` for a str or None.
Falsy(x) == x.isNone \/ x.s = <<>>

----------------------------------------------------------------------------
(* str.replace, str.strip and the `in` test, on sequences of characters. *)

StartsWith(s, pat) ==
    /\ Len(pat) <= Len(s)
    /\ SubSeq(s, 1, Len(pat)) = pat

\* s.find(pat): the index of the first occurrence of pat in s, 0 when there
\* is none.
Find(s, pat) ==
    LET hits == {i \in 1..Len(s) : StartsWith(SubSeq(s, i, Len(s)), pat)}
    IN  IF hits = {} THEN 0 ELSE CHOOSE i \in hits : \A j \in hits : i <= j

\* s.replace(pat, ""): the occurrences of pat, found left to right without
\* overlap, are removed.
RECURSIVE str_remove(_, _)
str_remove(s, pat) ==
    LET i == Find(s, pat)
    IN  IF i = 0 THEN s
        ELSE SubSeq(s, 1, i - 1)
             \o str_remove(SubSeq(s, i + Len(pat), Len(s)), pat)

IsWs(c) == c \in {" ", "\n", "\t", "\r"}

RECURSIVE lstrip(_)
lstrip(s) ==
    IF s # <<>> /\ IsWs(Head(s)) THEN lstrip(Tail(s)) ELSE s

RECURSIVE rstrip(_)
rstrip(s) ==
    IF s # <<>> /\ IsWs(s[Len(s)]) THEN rstrip(SubSeq(s, 1, Len(s) - 1)) ELSE s

str_strip(s) == lstrip(rstrip(s))

\* pat in s
Contains(s, pat) == Find(s, pat) # 0

\* The backquote character (U+0060), which a TLA+ string cannot hold: the one
\* element of a text that is not written as itself.
BQ == "BQ"

FenceJson ==
    <<BQ, BQ, BQ, "j", "s", "o", "n">>

Fence ==
    <<BQ, BQ, BQ>>

\* Line 270.
Sanitize(text) == str_strip(str_remove(str_remove(text, FenceJson), Fence))

----------------------------------------------------------------------------
(* JSON values, tagged: a string holds its characters, an array its        *)
(* elements, an object its (key, value) pairs in order, a number its       *)
(* digits.                                                                 *)

JStr(s) == [t |-> "str", v |-> s]
JArr(a) == [t |-> "arr", v |-> a]
JObj(m) == [t |-> "obj", v |-> m]
JNum(d) == [t |-> "num", v |-> d]
JNull == [t |-> "null", v |-> <<>>]

Digits == {"0", "1", "2", "3", "4", "5", "6", "7", "8", "9"}

NullLit == <<"n", "u", "l", "l">>

ParseFail == [ok |-> FALSE, val |-> JNull, pos |-> 0]

ParseOk(v, p) == [ok |-> TRUE, val |-> v, pos |-> p]

RECURSIVE SkipWs(_, _)
SkipWs(s, i) ==
    IF i <= Len(s) /\ IsWs(s[i]) THEN SkipWs(s, i + 1) ELSE i

\* The index of the quote closing a string whose first character is at i,
\* 0 when there is none (a raw control character ends the scan: json.loads
\* is strict).
RECURSIVE StrEnd(_, _)
StrEnd(s, i) ==
    IF i > Len(s) THEN 0
    ELSE IF s[i] = "\"" THEN i
    ELSE IF s[i] \in {"\n", "\t", "\r"} THEN 0
    ELSE StrEnd(s, i + 1)

RECURSIVE DigitsEnd(_, _)
DigitsEnd(s, i) ==
    IF i <= Len(s) /\ s[i] \in Digits THEN DigitsEnd(s, i + 1) ELSE i

\* The index after the number whose first digit is at i: a number that
\* starts with 0 is that digit alone.
NumEnd(s, i) == IF s[i] = "0" THEN i + 1 ELSE DigitsEnd(s, i)

ParseString(s, i) ==
    IF i > Len(s) \/ s[i] # "\"" THEN ParseFail
    ELSE LET e == StrEnd(s, i + 1)
         IN  IF e = 0 THEN ParseFail
             ELSE ParseOk(JStr(SubSeq(s, i + 1, e - 1)), e + 1)

RECURSIVE ParseValue(_, _)
RECURSIVE ParseElems(_, _, _)
RECURSIVE ParseMembers(_, _, _)

\* The value that starts at i (whitespace before it already skipped).
ParseValue(s, i) ==
    IF i > Len(s) THEN ParseFail
    ELSE IF s[i] = "\"" THEN ParseString(s, i)
    ELSE IF s[i] = "["
         THEN LET j == SkipWs(s, i + 1)
              IN  IF j <= Len(s) /\ s[j] = "]"
                  THEN ParseOk(JArr(<<>>), j + 1)
                  ELSE ParseElems(s, j, <<>>)
    ELSE IF s[i] = "{"
         THEN LET j == SkipWs(s, i + 1)
              IN  IF j <= Len(s) /\ s[j] = "}"
                  THEN ParseOk(JObj(<<>>), j + 1)
                  ELSE ParseMembers(s, j, <<>>)
    ELSE IF s[i] \in Digits
         THEN LET e == NumEnd(s, i)
              IN  ParseOk(JNum(SubSeq(s, i, e - 1)), e)
    ELSE IF StartsWith(SubSeq(s, i, Len(s)), NullLit)
         THEN ParseOk(JNull, i + 4)
    ELSE ParseFail

\* The elements of an array from i on, acc being those read so far.
ParseElems(s, i, acc) ==
    LET r == ParseValue(s, i)
    IN  IF ~r.ok THEN ParseFail
        ELSE LET j == SkipWs(s, r.pos)
             IN  IF j > Len(s) THEN ParseFail
                 ELSE IF s[j] = ","
                      THEN ParseElems(s, SkipWs(s, j + 1), Append(acc, r.val))
                 ELSE IF s[j] = "]"
                      THEN ParseOk(JArr(Append(acc, r.val)), j + 1)
                 ELSE ParseFail

\* The members of an object from i on, acc being those read so far.
ParseMembers(s, i, acc) ==
    LET k == ParseString(s, i)
    IN  IF ~k.ok THEN ParseFail
        ELSE LET c == SkipWs(s, k.pos)
             IN  IF c > Len(s) \/ s[c] # ":" THEN ParseFail
                 ELSE LET r == ParseValue(s, SkipWs(s, c + 1))
                      IN  IF ~r.ok THEN ParseFail
                          ELSE LET j == SkipWs(s, r.pos)
                                   m == Append(acc, <<k.val.v, r.val>>)
                               IN  IF j > Len(s) THEN ParseFail
                                   ELSE IF s[j] = ","
                                        THEN ParseMembers(s, SkipWs(s, j + 1), m)
                                   ELSE IF s[j] = "}"
                                        THEN ParseOk(JObj(m), j + 1)
                                   ELSE ParseFail

\* json.loads: one value, whitespace around it, nothing else.
json_loads(s) ==
    LET r == ParseValue(s, SkipWs(s, 1))
    IN  IF r.ok /\ SkipWs(s, r.pos) = Len(s) + 1 THEN r ELSE ParseFail

CommaSp == <<",", " ">>

RECURSIVE json_dumps(_)
RECURSIVE DumpElems(_)
RECURSIVE DumpMembers(_)

\* json.dumps with its default separators.
json_dumps(v) ==
    IF v.t = "str" THEN <<"\"">> \o v.v \o <<"\"">>
    ELSE IF v.t = "arr" THEN <<"[">> \o DumpElems(v.v) \o <<"]">>
    ELSE IF v.t = "obj" THEN <<"{">> \o DumpMembers(v.v) \o <<"}">>
    ELSE IF v.t = "num" THEN v.v
    ELSE NullLit

DumpElems(a) ==
    IF a = <<>> THEN <<>>
    ELSE json_dumps(Head(a))
         \o (IF Len(a) > 1 THEN CommaSp ELSE <<>>) \o DumpElems(Tail(a))

DumpMembers(m) ==
    IF m = <<>> THEN <<>>
    ELSE <<"\"">> \o Head(m)[1] \o <<"\"", ":", " ">> \o json_dumps(Head(m)[2])
         \o (IF Len(m) > 1 THEN CommaSp ELSE <<>>) \o DumpMembers(Tail(m))

----------------------------------------------------------------------------
(* The keys of the wire format, lines 162-186 and 278-313. *)

K_breaking_news ==
    <<"b", "r", "e", "a", "k", "i", "n", "g", "_", "n", "e", "w", "s">>

K_market_analysis ==
    <<"m", "a", "r", "k", "e", "t", "_", "a", "n", "a", "l", "y", "s", "i", "s">>

K_new_tech ==
    <<"n", "e", "w", "_", "t", "e", "c", "h">>

K_title ==
    <<"t", "i", "t", "l", "e">>

K_core_points ==
    <<"c", "o", "r", "e", "_", "p", "o", "i", "n", "t", "s">>

K_url ==
    <<"u", "r", "l">>

K_source ==
    <<"s", "o", "u", "r", "c", "e">>

K_topic ==
    <<"t", "o", "p", "i", "c">>

K_insight ==
    <<"i", "n", "s", "i", "g", "h", "t">>

K_name ==
    <<"n", "a", "m", "e">>

K_desc ==
    <<"d", "e", "s", "c">>

K_tech_highlight ==
    <<"t", "e", "c", "h", "_", "h", "i", "g", "h", "l", "i", "g", "h", "t">>

----------------------------------------------------------------------------
(* The rendering of lines 274-313, as far as it decides whether the try    *)
(* block of line 268 raises.                                               *)

Last(S) == CHOOSE i \in S : \A j \in S : j <= i

First(S) == CHOOSE i \in S : \A j \in S : i <= j

\* key in d, for the pairs m of a dict.
HasKey(m, key) == \E i \in 1..Len(m) : m[i][1] = key

\* d.get(key, default): of a key the reply repeats, json.loads keeps the last.
DictGet(m, key, default) ==
    IF HasKey(m, key)
    THEN m[Last({i \in 1..Len(m) : m[i][1] = key})][2]
    ELSE default

\* What a for loop over v visits: the elements of a list, the keys of a dict,
\* the characters of a str; a number or None is not iterable (TypeError).
Iter(v) ==
    IF v.t = "arr" THEN [ok |-> TRUE, items |-> v.v]
    ELSE IF v.t = "obj"
         THEN [ok |-> TRUE, items |-> [i \in 1..Len(v.v) |-> JStr(v.v[i][1])]]
    ELSE IF v.t = "str"
         THEN [ok |-> TRUE, items |-> [i \in 1..Len(v.v) |-> JStr(<<v.v[i]>>)]]
    ELSE [ok |-> FALSE, items |-> <<>>]

\* item[key] raises unless item is a dict that has the key.
Subscript(item, key) == item.t = "obj" /\ HasKey(item.v, key)

\* Lines 283-287: item['title'], the loop over item.get('core_points', []),
\* item['url'].
NewsItemDraws(item) ==
    /\ Subscript(item, K_title)
    /\ Iter(DictGet(item.v, K_core_points, JArr(<<>>))).ok
    /\ Subscript(item, K_url)

\* Lines 297-300: item['topic'], item['insight'], item.get('url').
MarketItemDraws(item) ==
    /\ Subscript(item, K_topic)
    /\ Subscript(item, K_insight)

\* Lines 309-313: item['name'], item['desc'], item.get('tech_highlight'),
\* item['url'].
ToolItemDraws(item) ==
    /\ Subscript(item, K_name)
    /\ Subscript(item, K_desc)
    /\ Subscript(item, K_url)

\* The body of the loop of the tab that shows `section`.
ItemDraws(section, item) ==
    IF section = K_breaking_news THEN NewsItemDraws(item)
    ELSE IF section = K_market_analysis THEN MarketItemDraws(item)
    ELSE ToolItemDraws(item)

\* One tab: the loop over data.get(section, []) draws the items in order and
\* stops at the first one that raises.
DrawSection(doc, section) ==
    LET it == Iter(DictGet(doc.v, section, JArr(<<>>)))
        bad == {i \in 1..Len(it.items) : ~ItemDraws(section, it.items[i])}
    IN  IF ~it.ok THEN [raised |-> TRUE, drawn |-> 0]
        ELSE IF bad = {} THEN [raised |-> FALSE, drawn |-> Len(it.items)]
        ELSE [raised |-> TRUE, drawn |-> First(bad) - 1]

\* Lines 274-313 on the parsed reply: whether an exception leaves the try
\* block, and the items drawn in each tab before it did. data.get raises on
\* anything but a dict.
Render(doc) ==
    IF doc.t # "obj" THEN [raised |-> TRUE, drawn |-> <<0, 0, 0>>]
    ELSE LET t1 == DrawSection(doc, K_breaking_news)
             t2 == DrawSection(doc, K_market_analysis)
             t3 == DrawSection(doc, K_new_tech)
         IN  IF t1.raised THEN [raised |-> TRUE, drawn |-> <<t1.drawn, 0, 0>>]
             ELSE IF t2.raised
                  THEN [raised |-> TRUE, drawn |-> <<t1.drawn, t2.drawn, 0>>]
             ELSE [raised |-> t3.raised, drawn |-> <<t1.drawn, t2.drawn, t3.drawn>>]

\* Lines 268-318 on the text main() got from the model: sanitise, parse,
\* render; any exception shows the error of line 316.
ParseAndRender(text) ==
    LET cleaned == Sanitize(text)
        loaded == json_loads(cleaned)
    IN  IF ~loaded.ok
        THEN [parsed |-> FALSE, raised |-> TRUE, drawn |-> <<0, 0, 0>>, data |-> JNull]
        ELSE LET r == Render(loaded.val)
             IN  [parsed |-> TRUE, raised |-> r.raised, drawn |-> r.drawn,
                  data |-> loaded.val]

----------------------------------------------------------------------------
(* The search tasks, lines 66-82, and the corpus, lines 96-107. *)

tasks ==
    << [category |-> "Breaking News", limit |-> 20],
       [category |-> "GitHub & Tools", limit |-> 15],
       [category |-> "Business & Market", limit |-> 15] >>

\* Line 99: one block of the corpus, as its chunks of text.
Block(category, item) ==
    << "[", category, "] Title: ", item.title, "\nContent: ", item.content,
       "\nURL: ", item.url, "\n" >>

\* Line 107: "\n".join(all_results).
RECURSIVE Join(_)
Join(blocks) ==
    IF blocks = <<>> THEN <<>>
    ELSE IF Len(blocks) = 1 THEN Head(blocks)
    ELSE Head(blocks) \o <<"\n">> \o Join(Tail(blocks))

\* Lines 97-99: the blocks of one response, in the provider's order.
BlocksOf(category, items) ==
    [k \in 1..Len(items) |-> Block(category, items[k])]

----------------------------------------------------------------------------
(* The model names, lines 133-141 and 216-221. *)

model_map ==
    [ x \in { "gemini-3.0-flash-preview", "gemini-3.0-pro-preview",
              "gemini-2.5-flash", "gemini-2.5-pro" } |->
        CASE x = "gemini-3.0-flash-preview" -> "gemini-1.5-flash-latest"
          [] x = "gemini-3.0-pro-preview" -> "gemini-1.5-pro-latest"
          [] x = "gemini-2.5-flash" -> "gemini-1.5-flash"
          [] x = "gemini-2.5-pro" -> "gemini-1.5-pro" ]

Code429 == <<"4", "2", "9">>

Code404 == <<"4", "0", "4">>

\* Resolve with a fixed fallback for the names the table does not hold.
Resolve_fallback(model_selection) ==
    IF model_selection \in DOMAIN model_map
    THEN model_map[model_selection]
    ELSE "gemini-1.5-flash-latest"

\* Line 141: model_map.get(model_selection, model_selection).
Resolve(model_selection) ==
    IF model_selection \in DOMAIN model_map
    THEN model_map[model_selection]
    ELSE model_selection

SelectboxOptions ==
    { "gemini-3.0-flash-preview", "gemini-3.0-pro-preview",
      "gemini-2.5-flash", "gemini-2.5-pro" }

\* Classify with the two tests in the other order.
Classify_404_first(msg, model_selection) ==
    IF Contains(msg, Code404)
    THEN [class |-> "ModelUnavailable", id |-> model_selection]
    ELSE IF Contains(msg, Code429) THEN [class |-> "RateLimited", id |-> ""]
    ELSE [class |-> "Unclassified", id |-> ""]

\* Lines 194-200: the st.error shown for the exception text, and the model
\* name it prints.
Classify(msg, model_selection) ==
    IF Contains(msg, Code429) THEN [class |-> "RateLimited", id |-> ""]
    ELSE IF Contains(msg, Code404)
         THEN [class |-> "ModelUnavailable", id |-> model_selection]
    ELSE [class |-> "Unclassified", id |-> ""]

NoError == [class |-> "none", id |-> ""]

----------------------------------------------------------------------------
(* Inputs: what the user enters and what the two providers answer. *)

Keys == {"", "key"}

\* Names a direct caller may request: the four of the selectbox, one the
\* provider knows under that very name, one nobody knows.
ModelIds == SelectboxOptions \cup {"gemini-1.5-pro", "no-such-model"}

Items ==
    { [title |-> "t1", content |-> "c1", url |-> "u1"],
      [title |-> "t2", content |-> "c2", url |-> "u2"] }

ResultLists(n) == UNION {[1..k -> Items] : k \in 0..n}

Min(a, b) == IF a <= b THEN a ELSE b

\* Exception texts of the model provider.
ErrorMessages ==
    { Code429, Code404, <<"5", "0", "0">>,
      Code404 \o <<" ">> \o Code429,
      <<"4", "2", " ", "9">> }

NewsItem(title, points, url, source) ==
    JObj(<< <<K_title, JStr(title)>>, <<K_core_points, JArr(points)>>,
            <<K_url, JStr(url)>>, <<K_source, JStr(source)>> >>)

MarketItem(topic, insight) ==
    JObj(<< <<K_topic, JStr(topic)>>, <<K_insight, JStr(insight)>> >>)

ToolItem(name, desc, highlight, url) ==
    JObj(<< <<K_name, JStr(name)>>, <<K_desc, JStr(desc)>>,
            <<K_tech_highlight, JStr(highlight)>>, <<K_url, JStr(url)>> >>)

Report(news, market, tech) ==
    JObj(<< <<K_breaking_news, JArr(news)>>, <<K_market_analysis, JArr(market)>>,
            <<K_new_tech, JArr(tech)>> >>)

\* Reports of the shape the prompt asks for (lines 162-186).
StructuredReports ==
    << Report(<<>>, <<>>, <<>>),
       Report(<<NewsItem(<<"a">>, <<JStr(<<"p">>)>>, <<"u">>, <<"s">>)>>, <<>>, <<>>),
       Report(<<NewsItem(<<"a", BQ, BQ, BQ>>, <<>>, <<"u">>, <<"s">>)>>, <<>>, <<>>),
       Report(<<>>, <<>>, <<ToolItem(<<"n">>, FenceJson, <<"h">>, <<"u">>)>>),
       Report(<<>>, <<MarketItem(<<"t">>, <<"i">>)>>, <<>>),
       Report(<<NewsItem(<<" ", "a", " ">>, <<>>, <<"u">>, <<"s">>)>>, <<>>, <<>>) >>

\* Replies that are JSON but not of that shape.
OtherJson ==
    << JObj(<<>>),
       JArr(<<>>),
       JNum(<<"1">>),
       JObj(<< <<K_breaking_news, JNull>> >>),
       JObj(<< <<K_breaking_news, JArr(<<JStr(<<"a">>)>>)>> >>),
       JObj(<< <<K_breaking_news,
                 JArr(<<JObj(<< <<K_url, JStr(<<"u">>)>> >>)>>)>> >>),
       JObj(<< <<K_breaking_news,
                 JArr(<< NewsItem(<<"a">>, <<>>, <<"u">>, <<"s">>),
                         JObj(<< <<K_title, JStr(<<"b">>)>> >>) >>)>> >>),
       JObj(<< <<K_breaking_news,
                 JArr(<<JObj(<< <<K_title, JStr(<<"a">>)>>,
                                <<K_core_points, JNum(<<"1">>)>>,
                                <<K_url, JStr(<<"u">>)>> >>)>>)>> >>),
       JObj(<< <<K_market_analysis,
                 JArr(<<JObj(<< <<K_topic, JStr(<<"t">>)>> >>)>>)>> >>),
       JObj(<< <<K_new_tech,
                 JArr(<<JObj(<< <<K_name, JStr(<<"n">>)>>,
                                <<K_url, JStr(<<"u">>)>> >>)>>)>> >>) >>

\* The text wrapped in a fenced block, as a model does despite the prompt.
Fenced(text) == FenceJson \o <<"\n">> \o text \o <<"\n">> \o Fence

Range(f) == {f[i] : i \in DOMAIN f}

ReportTexts == {json_dumps(r) : r \in Range(StructuredReports)}

OtherJsonTexts == {json_dumps(r) : r \in Range(OtherJson)}

\* Replies that are not JSON: empty, blank, not JSON at all (bare and
\* fenced), a bare fence, a report cut short.
BrokenTexts ==
    { <<>>, <<" ">>, <<"o", "k">>, Fenced(<<>>), Fenced(<<"o", "k">>),
      SubSeq(json_dumps(StructuredReports[2]), 1, 40) }

\* What response.text can be.
ModelTexts ==
    ReportTexts \cup {Fenced(t) : t \in ReportTexts} \cup OtherJsonTexts
        \cup {Fenced(json_dumps(OtherJson[1]))} \cup BrokenTexts

\* ParseAndRender of every reply, computed once.
Rendering == [t \in ModelTexts |-> ParseAndRender(t)]

----------------------------------------------------------------------------
(* The state at the start of a run of main(), and at a direct call of      *)
(* process_news_with_gemini.                                               *)

NotParsed == [parsed |-> FALSE, val |-> JNull]

RunLocalsFresh ==
    /\ task_i = 0
    /\ all_results = <<>>
    /\ task_log = <<>>
    /\ warnings = <<>>
    /\ target_model = ""
    /\ submitted = <<>>
    /\ response_text = None
    /\ error_msg = <<>>
    /\ st_error = NoError
    /\ json_result = None
    /\ cleaned_json = None
    /\ data = NotParsed
    /\ outcome = "running"
    /\ rendered = <<0, 0, 0>>
    /\ raw_shown = None

Init ==
    /\ pc = "main"
    /\ caller = "main"
    /\ run_btn \in BOOLEAN
    /\ google_api_key \in Keys
    /\ tavily_api_key \in Keys
    /\ model_choice \in SelectboxOptions
    /\ raw_data = None
    /\ resolved_log = {}
    /\ n_calls = 0
    /\ RunLocalsFresh

\* A corpus a direct caller passes.
SampleCorpus == Join(BlocksOf(tasks[1].category, <<CHOOSE it \in Items : it.title = "t1">>))

InitInvoke ==
    /\ pc = "process"
    /\ caller = "direct"
    /\ run_btn = FALSE
    /\ google_api_key \in Keys
    /\ tavily_api_key = ""
    /\ model_choice \in ModelIds
    /\ raw_data = Str(SampleCorpus)
    /\ resolved_log = {}
    /\ n_calls = 1
    /\ RunLocalsFresh

----------------------------------------------------------------------------
(* main(), lines 204-318. *)

\* MainStart testing only the Google key.
MainStart_one_key ==
    /\ pc = "main"
    /\ IF ~run_btn
       THEN pc' = "done" /\ outcome' = "idle"
       ELSE IF google_api_key = ""
            THEN pc' = "done" /\ outcome' = "keys_missing"
            ELSE pc' = "search" /\ outcome' = outcome
    /\ UNCHANGED << caller, run_btn, google_api_key, tavily_api_key, model_choice,
                    task_i, all_results, task_log, warnings, raw_data, target_model,
                    submitted, response_text, error_msg, st_error, json_result,
                    cleaned_json, data, rendered, raw_shown, resolved_log, n_calls >>

\* Lines 238-249: nothing happens without the button; a missing key ends the
\* run with a warning; otherwise search_aggregated_data is called.
MainStart ==
    /\ pc = "main"
    /\ IF ~run_btn
       THEN pc' = "done" /\ outcome' = "idle"
       ELSE IF google_api_key = "" \/ tavily_api_key = ""
            THEN pc' = "done" /\ outcome' = "keys_missing"
            ELSE pc' = "search" /\ outcome' = outcome
    /\ UNCHANGED << caller, run_btn, google_api_key, tavily_api_key, model_choice,
                    task_i, all_results, task_log, warnings, raw_data, target_model,
                    submitted, response_text, error_msg, st_error, json_result,
                    cleaned_json, data, rendered, raw_shown, resolved_log, n_calls >>

\* MainAfterSearch without the test of line 251.
MainAfterSearch_no_test ==
    /\ pc = "after_search"
    /\ pc' = "process"
    /\ UNCHANGED << caller, run_btn, google_api_key, tavily_api_key, model_choice,
                    task_i, all_results, task_log, warnings, raw_data, target_model,
                    submitted, response_text, error_msg, st_error, json_result,
                    cleaned_json, data, outcome, rendered, raw_shown, resolved_log,
                    n_calls >>

\* Lines 251-259: an empty corpus (or None) ends the run; otherwise
\* process_news_with_gemini is called.
MainAfterSearch ==
    /\ pc = "after_search"
    /\ IF Falsy(raw_data)
       THEN pc' = "done" /\ outcome' = "search_failed"
       ELSE pc' = "process" /\ outcome' = outcome
    /\ UNCHANGED << caller, run_btn, google_api_key, tavily_api_key, model_choice,
                    task_i, all_results, task_log, warnings, raw_data, target_model,
                    submitted, response_text, error_msg, st_error, json_result,
                    cleaned_json, data, rendered, raw_shown, resolved_log, n_calls >>

\* Lines 261-265: no text from the model ends the run.
MainAfterProcess ==
    /\ pc = "after_process"
    /\ IF Falsy(json_result)
       THEN pc' = "done" /\ outcome' = "generation_failed"
       ELSE pc' = "render" /\ outcome' = outcome
    /\ UNCHANGED << caller, run_btn, google_api_key, tavily_api_key, model_choice,
                    task_i, all_results, task_log, warnings, raw_data, target_model,
                    submitted, response_text, error_msg, st_error, json_result,
                    cleaned_json, data, rendered, raw_shown, resolved_log, n_calls >>

\* MainRender showing the sanitised text in the debug expander.
MainRender_shows_cleaned ==
    /\ pc = "render"
    /\ LET r == Rendering[json_result.s]
       IN  /\ cleaned_json' = Str(Sanitize(json_result.s))
           /\ data' = [parsed |-> r.parsed, val |-> r.data]
           /\ rendered' = r.drawn
           /\ IF r.raised
              THEN outcome' = "parse_error" /\ raw_shown' = Str(Sanitize(json_result.s))
              ELSE outcome' = "report" /\ raw_shown' = raw_shown
    /\ pc' = "done"
    /\ UNCHANGED << caller, run_btn, google_api_key, tavily_api_key, model_choice,
                    task_i, all_results, task_log, warnings, raw_data, target_model,
                    submitted, response_text, error_msg, st_error, json_result,
                    resolved_log, n_calls >>

\* Lines 268-318: the report is drawn, or the exception handler shows the
\* error of line 316 and, in the debug expander, json_result.
MainRender ==
    /\ pc = "render"
    /\ LET r == Rendering[json_result.s]
       IN  /\ cleaned_json' = Str(Sanitize(json_result.s))
           /\ data' = [parsed |-> r.parsed, val |-> r.data]
           /\ rendered' = r.drawn
           /\ IF r.raised
              THEN outcome' = "parse_error" /\ raw_shown' = json_result
              ELSE outcome' = "report" /\ raw_shown' = raw_shown
    /\ pc' = "done"
    /\ UNCHANGED << caller, run_btn, google_api_key, tavily_api_key, model_choice,
                    task_i, all_results, task_log, warnings, raw_data, target_model,
                    submitted, response_text, error_msg, st_error, json_result,
                    resolved_log, n_calls >>

----------------------------------------------------------------------------
(* search_aggregated_data(), lines 51-107. *)

\* Lines 58-84: without a key the function shows an error and returns None.
SearchEntry ==
    /\ pc = "search"
    /\ IF tavily_api_key = ""
       THEN /\ st_error' = [class |-> "NoTavilyKey", id |-> ""]
            /\ raw_data' = None
            /\ pc' = "after_search"
            /\ UNCHANGED << task_i, all_results >>
       ELSE /\ all_results' = <<>>
            /\ task_i' = 1
            /\ pc' = "search_loop"
            /\ UNCHANGED << st_error, raw_data >>
    /\ UNCHANGED << caller, run_btn, google_api_key, tavily_api_key, model_choice,
                    task_log, warnings, target_model, submitted, response_text,
                    error_msg, json_result, cleaned_json, data, outcome,
                    rendered, raw_shown, resolved_log, n_calls >>

\* The documents the provider has returned so far in this run.
DocsSoFar == Len(all_results)

\* SearchTaskReturns tagging every block with the first task's category.
SearchTaskReturns_stale_category ==
    /\ pc = "search_loop"
    /\ task_i <= Len(tasks)
    /\ \E has_results \in BOOLEAN :
       \E results \in ResultLists(Min(tasks[task_i].limit, MaxDocs - DocsSoFar)) :
          LET items == IF has_results THEN results ELSE <<>>
          IN  /\ has_results \/ results = <<>>
              /\ all_results' = all_results \o BlocksOf(tasks[1].category, items)
              /\ task_log' = Append(task_log,
                     [task |-> task_i, raised |-> FALSE, items |-> items])
    /\ task_i' = task_i + 1
    /\ UNCHANGED << pc, caller, run_btn, google_api_key, tavily_api_key,
                    model_choice, warnings, raw_data, target_model, submitted,
                    response_text, error_msg, st_error, json_result, cleaned_json,
                    data, outcome, rendered, raw_shown, resolved_log, n_calls >>

\* Lines 86-101: the provider answers task task_i with at most `limit` items
\* (under "results", or with no such key); each becomes a block tagged with
\* the task's category.
SearchTaskReturns ==
    /\ pc = "search_loop"
    /\ task_i <= Len(tasks)
    /\ \E has_results \in BOOLEAN :
       \E results \in ResultLists(Min(tasks[task_i].limit, MaxDocs - DocsSoFar)) :
          LET items == IF has_results THEN results ELSE <<>>
          IN  /\ has_results \/ results = <<>>
              /\ all_results' = all_results \o BlocksOf(tasks[task_i].category, items)
              /\ task_log' = Append(task_log,
                     [task |-> task_i, raised |-> FALSE, items |-> items])
    /\ task_i' = task_i + 1
    /\ UNCHANGED << pc, caller, run_btn, google_api_key, tavily_api_key,
                    model_choice, warnings, raw_data, target_model, submitted,
                    response_text, error_msg, st_error, json_result, cleaned_json,
                    data, outcome, rendered, raw_shown, resolved_log, n_calls >>

\* SearchTaskRaises leaving the loop instead of going on.
SearchTaskRaises_break ==
    /\ pc = "search_loop"
    /\ task_i <= Len(tasks)
    /\ warnings' = Append(warnings, tasks[task_i].category)
    /\ task_log' = Append(task_log, [task |-> task_i, raised |-> TRUE, items |-> <<>>])
    /\ task_i' = Len(tasks) + 1
    /\ UNCHANGED << pc, caller, run_btn, google_api_key, tavily_api_key,
                    model_choice, all_results, raw_data, target_model, submitted,
                    response_text, error_msg, st_error, json_result, cleaned_json,
                    data, outcome, rendered, raw_shown, resolved_log, n_calls >>

\* Lines 103-105: client.search raises; a warning names the task and the loop
\* goes on.
SearchTaskRaises ==
    /\ pc = "search_loop"
    /\ task_i <= Len(tasks)
    /\ warnings' = Append(warnings, tasks[task_i].category)
    /\ task_log' = Append(task_log, [task |-> task_i, raised |-> TRUE, items |-> <<>>])
    /\ task_i' = task_i + 1
    /\ UNCHANGED << pc, caller, run_btn, google_api_key, tavily_api_key,
                    model_choice, all_results, raw_data, target_model, submitted,
                    response_text, error_msg, st_error, json_result, cleaned_json,
                    data, outcome, rendered, raw_shown, resolved_log, n_calls >>

\* Line 107.
SearchReturn ==
    /\ pc = "search_loop"
    /\ task_i > Len(tasks)
    /\ raw_data' = Str(Join(all_results))
    /\ pc' = "after_search"
    /\ UNCHANGED << caller, run_btn, google_api_key, tavily_api_key, model_choice,
                    task_i, all_results, task_log, warnings, target_model,
                    submitted, response_text, error_msg, st_error, json_result,
                    cleaned_json, data, outcome, rendered, raw_shown, resolved_log,
                    n_calls >>

----------------------------------------------------------------------------
(* process_news_with_gemini(), lines 110-201. *)

\* Where the function returns to.
Returned == IF caller = "main" THEN "after_process" ELSE "returned"

\* Lines 111-143: without a key the function shows an error and returns
\* None; otherwise the requested name is mapped and the model object built.
ProcessEntry ==
    /\ pc = "process"
    /\ IF google_api_key = ""
       THEN /\ st_error' = [class |-> "NoGoogleKey", id |-> ""]
            /\ json_result' = None
            /\ pc' = Returned
            /\ UNCHANGED target_model
       ELSE /\ target_model' = Resolve(model_choice)
            /\ pc' = "generate"
            /\ UNCHANGED << st_error, json_result >>
    /\ UNCHANGED << caller, run_btn, google_api_key, tavily_api_key, model_choice,
                    task_i, all_results, task_log, warnings, raw_data, submitted,
                    response_text, error_msg, cleaned_json, data, outcome, rendered,
                    raw_shown, resolved_log, n_calls >>

\* Lines 190-191: the one generate_content call answers with a text, which
\* is returned as it is.
GenerateReturns ==
    /\ pc = "generate"
    /\ \E text \in ModelTexts :
          /\ response_text' = Str(text)
          /\ json_result' = Str(text)
    /\ submitted' = Append(submitted, target_model)
    /\ resolved_log' = resolved_log \cup {<<model_choice, target_model>>}
    /\ pc' = Returned
    /\ UNCHANGED << caller, run_btn, google_api_key, tavily_api_key, model_choice,
                    task_i, all_results, task_log, warnings, raw_data, target_model,
                    error_msg, st_error, cleaned_json, data, outcome, rendered,
                    raw_shown, n_calls >>

\* Lines 190-201: the call raises; the exception text is classified, the
\* error shown, None returned.
GenerateRaises ==
    /\ pc = "generate"
    /\ \E msg \in ErrorMessages :
          /\ error_msg' = msg
          /\ st_error' = Classify(msg, model_choice)
    /\ json_result' = None
    /\ submitted' = Append(submitted, target_model)
    /\ resolved_log' = resolved_log \cup {<<model_choice, target_model>>}
    /\ pc' = Returned
    /\ UNCHANGED << caller, run_btn, google_api_key, tavily_api_key, model_choice,
                    task_i, all_results, task_log, warnings, raw_data, target_model,
                    response_text, cleaned_json, data, outcome, rendered, raw_shown,
                    n_calls >>

\* A direct caller calls the function again, with arguments of its choice.
CallAgain ==
    /\ pc = "returned"
    /\ n_calls < MaxCalls
    /\ n_calls' = n_calls + 1
    /\ google_api_key' \in Keys
    /\ model_choice' \in ModelIds
    /\ pc' = "process"
    /\ target_model' = ""
    /\ submitted' = <<>>
    /\ response_text' = None
    /\ error_msg' = <<>>
    /\ st_error' = NoError
    /\ json_result' = None
    /\ UNCHANGED << caller, run_btn, tavily_api_key, task_i, all_results, task_log,
                    warnings, raw_data, cleaned_json, data, outcome, rendered,
                    raw_shown, resolved_log >>

----------------------------------------------------------------------------

Next ==
    \/ MainStart
    \/ SearchEntry
    \/ SearchTaskReturns
    \/ SearchTaskRaises
    \/ SearchReturn
    \/ MainAfterSearch
    \/ ProcessEntry
    \/ GenerateReturns
    \/ GenerateRaises
    \/ MainAfterProcess
    \/ MainRender

\* One run of main().
Spec == Init /\ [][Next]_vars

NextInvoke ==
    \/ ProcessEntry
    \/ GenerateReturns
    \/ GenerateRaises
    \/ CallAgain

\* process_news_with_gemini called on its own, with any model name.
SpecInvoke == InitInvoke /\ [][NextInvoke]_vars

----------------------------------------------------------------------------
(* Properties. *)

\* search_aggregated_data has returned a corpus (not None).
CorpusReturned == ~raw_data.isNone

SomeTaskReturnedItems == \E k \in 1..Len(task_log) : task_log[k].items # <<>>

\* The model provider has been called, or the call is being prepared.
ModelStageEntered ==
    \/ pc \in {"process", "generate", "after_process", "render"}
    \/ submitted # <<>>
    \/ ~response_text.isNone
    \/ error_msg # <<>>

\* C1: once search_aggregated_data has returned, all three tasks have been
\* executed, in order, whichever of them failed; the corpus is non-empty
\* exactly when some task returned at least one item; and a run whose corpus
\* is empty ends as a failed search.
C1_CorpusNonEmptyIffSomeItem ==
    /\ CorpusReturned =>
          /\ Len(task_log) = Len(tasks)
          /\ \A k \in 1..Len(task_log) : task_log[k].task = k
          /\ (raw_data.s # <<>>) <=> SomeTaskReturnedItems
    /\ (pc = "done" /\ CorpusReturned /\ ~SomeTaskReturnedItems) =>
          outcome = "search_failed"

\* C1's case: the first task failed, a later one returned items, the corpus
\* is not empty.
C1_Witness ==
    /\ pc = "done"
    /\ CorpusReturned
    /\ task_log[1].raised
    /\ task_log[3].items # <<>>
    /\ raw_data.s # <<>>

\* C2: the model stage is entered only after all search tasks have been
\* executed and have produced a non-empty corpus; when no task returned an
\* item, the run ends as a failed search and the model provider is never
\* called.
C2_ModelOnlyAfterRetrieval ==
    /\ ModelStageEntered =>
          /\ CorpusReturned
          /\ raw_data.s # <<>>
          /\ Len(task_log) = Len(tasks)
    /\ (Len(task_log) = Len(tasks) /\ ~SomeTaskReturnedItems) =>
          /\ ~ModelStageEntered
          /\ pc = "done" => outcome = "search_failed"

\* C2's case: every task failed or returned nothing and the run has ended.
C2_Witness ==
    /\ pc = "done"
    /\ outcome = "search_failed"
    /\ Len(task_log) = Len(tasks)
    /\ task_log[2].raised
    /\ ~task_log[1].raised
    /\ submitted = <<>>

\* C3: with the button pressed and either key empty, the run goes from its
\* start straight to its end, the end is the missing-keys warning, and
\* neither provider is called.
C3_MissingKeyStopsBeforeAnyCall ==
    (run_btn /\ (google_api_key = "" \/ tavily_api_key = "")) =>
        /\ pc \in {"main", "done"}
        /\ pc = "done" => outcome = "keys_missing"
        /\ task_log = <<>>
        /\ submitted = <<>>

\* C3's case: only the search key is missing and the run has ended.
C3_Witness ==
    /\ pc = "done"
    /\ run_btn
    /\ google_api_key # ""
    /\ tavily_api_key = ""
    /\ outcome = "keys_missing"

\* The reply of the model, sanitised, is not JSON.
ReplyMalformed ==
    /\ ~response_text.isNone
    /\ ~json_loads(Sanitize(response_text.s)).ok

\* C4, as claimed: a reply of the model that does not parse after sanitising
\* always ends the run as a parsing error, which shows the non-empty reply
\* unchanged.
C4_Original ==
    (pc = "done" /\ ReplyMalformed) =>
        /\ outcome = "parse_error"
        /\ ~raw_shown.isNone
        /\ raw_shown.s # <<>>
        /\ raw_shown.s = response_text.s

\* C4, amended: a non-empty reply of the model that does not parse after
\* sanitising always ends the run as a parsing error, which shows the reply
\* unchanged (not the sanitised text).
C4_MalformedReplyShownVerbatim ==
    (pc = "done" /\ ReplyMalformed /\ response_text.s # <<>>) =>
        /\ outcome = "parse_error"
        /\ ~data.parsed
        /\ ~raw_shown.isNone
        /\ raw_shown.s # <<>>
        /\ raw_shown.s = response_text.s

\* C4's case: a malformed reply that sanitising changes has been shown.
C4_Witness ==
    /\ pc = "done"
    /\ outcome = "parse_error"
    /\ ReplyMalformed
    /\ cleaned_json.s # response_text.s
    /\ cleaned_json.s # <<>>

\* C5, as claimed: when the reply is a report of the prompt's shape
\* serialised to JSON, bare or in a fenced block, what main() parses is that
\* report, and sanitising the bare serialisation leaves it unchanged.
C5_SanitizerRoundTrip ==
    \A k \in 1..Len(StructuredReports) :
        LET text == json_dumps(StructuredReports[k])
        IN  (pc = "done" /\ ~cleaned_json.isNone
                /\ json_result.s \in {text, Fenced(text)}) =>
                /\ data.parsed
                /\ json_dumps(data.val) = text
                /\ json_result.s = text => cleaned_json.s = text

\* The parsed reply is an object whose sections, where present, are lists.
SectionsAreLists ==
    /\ data.val.t = "obj"
    /\ \A section \in {K_breaking_news, K_market_analysis, K_new_tech} :
          DictGet(data.val.v, section, JArr(<<>>)).t = "arr"

\* C6, as claimed: a reply that parses as JSON, its sections being lists of
\* items with whatever fields, ends the run with a report, never with the
\* parsing error.
C6_ParsedReplyGivesReport ==
    (pc = "done" /\ data.parsed /\ SectionsAreLists) => outcome = "report"

C8_ErrorNamesAttemptedModel ==
    (Contains(error_msg, Code404) /\ ~Contains(error_msg, Code429)) =>
        /\ st_error.class = "ModelUnavailable"
        /\ submitted # <<>>
        /\ st_error.id = submitted[Len(submitted)]

\* C9: when the provider's error text holds 429, with or without 404, the
\* error shown is the rate-limit error, the provider was called once, no
\* text is returned, nothing is parsed or drawn, and the run ends as a
\* failed generation.
C9_RateLimitedHalts ==
    Contains(error_msg, Code429) =>
        /\ st_error.class = "RateLimited"
        /\ Len(submitted) = 1
        /\ json_result.isNone
        /\ response_text.isNone
        /\ pc \in {"after_process", "done"}
        /\ cleaned_json.isNone
        /\ ~data.parsed
        /\ rendered = <<0, 0, 0>>
        /\ raw_shown.isNone
        /\ pc = "done" => outcome = "generation_failed"

\* C9's case: the error text holds both codes and the run has ended.
C9_Witness ==
    /\ pc = "done"
    /\ outcome = "generation_failed"
    /\ Contains(error_msg, Code429)
    /\ Contains(error_msg, Code404)

\* The blocks the answers logged so far should have produced: task by task,
\* and within a task in the provider's order, each tagged with its task's
\* category.
RECURSIVE ExpectedBlocks(_)
ExpectedBlocks(log) ==
    IF log = <<>> THEN <<>>
    ELSE ExpectedBlocks(SubSeq(log, 1, Len(log) - 1))
         \o [k \in 1..Len(log[Len(log)].items) |->
               << "[", tasks[log[Len(log)].task].category, "] Title: ",
                  log[Len(log)].items[k].title, "\nContent: ",
                  log[Len(log)].items[k].content, "\nURL: ",
                  log[Len(log)].items[k].url, "\n" >>]

\* C10: the blocks collected are those of the tasks' answers, in the order
\* Breaking News, GitHub & Tools, Business & Market and within a task in the
\* provider's order, each tagged with the category of its own task; a task
\* that failed contributes none; the corpus returned is these blocks joined.
C10_BlocksTaggedAndOrdered ==
    /\ \A k \in 1..Len(task_log) :
          /\ task_log[k].task = k
          /\ task_log[k].raised => task_log[k].items = <<>>
    /\ all_results = ExpectedBlocks(task_log)
    /\ CorpusReturned => raw_data.s = Join(ExpectedBlocks(task_log))

\* C10's case: the first and third tasks returned different items, the
\* second failed, and the corpus has been returned.
C10_Witness ==
    /\ CorpusReturned
    /\ Len(task_log) = Len(tasks)
    /\ task_log[1].items # <<>>
    /\ task_log[2].raised
    /\ task_log[3].items # <<>>
    /\ task_log[1].items # task_log[3].items
    /\ Len(all_results) = 2

====
